---- MODULE Spec2Model ----
(***************************************************************************)
(* A model of scanpy's annotated matrix (src/scanpy/ann_data.py): the      *)
(* storage-type classification, BoundRecArr (the metadata record array     *)
(* that writes a rebuilt copy of itself back onto its AnnData), the        *)
(* dimension check, and AnnData's construction, indexing, assignment,      *)
(* deletion and transposition.                                             *)
(*                                                                         *)
(* A client holds two AnnData variables, "m" and "s" (objs), and at most   *)
(* one reference to a metadata table obtained earlier (ref).  numpy        *)
(* storage lives in buffers (bufs); an AnnData's X is a view               *)
(* [buf, tr, rix, cix] of one buffer, so that basic slicing and .T share   *)
(* memory as numpy does, and fancy indexing copies.                        *)
(***************************************************************************)
EXTENDS Integers, Sequences, FiniteSets, TLC

\* Bounds of the model.
MaxDim == 2     \* rows and columns of a constructed matrix range over 0..MaxDim
MaxOps == 2     \* operations performed after the first construction

\* numpy's append_fields pads a short column with the field's fill value
\* (usemask=False); the model writes that value as Fill.
Fill == -1

SMP_NAMES == "smp_names"
VAR_NAMES == "var_names"

VARIABLES
    objs,   \* slot -> AnnData object or NoObj
    bufs,   \* buffer id -> storage buffer or NoBuf
    ref,    \* the table reference the client holds, or NoRef
    last,   \* the last operation and its outcome
    ops     \* number of operations performed so far

vars == <<objs, bufs, ref, last, ops>>

Slots == {"m", "s"}
BufIds == {"b1", "b2"}
OtherSlot(o) == IF o = "m" THEN "s" ELSE "m"
OtherBuf(b) == IF b = "b1" THEN "b2" ELSE "b1"

NoObj == [kind |-> "none"]
NoBuf == [nr |-> 0, nc |-> 0, d |-> <<>>, free |-> TRUE]
NoRef == [owner |-> "none"]
\* A held reference that is not stale reads the table in its owner's slot.
NoTbl == [cols |-> <<>>, name_col |-> "none"]

Ok(v) == [ok |-> TRUE, val |-> v]
Err(e) == [ok |-> FALSE, err |-> e]

Min(S) == CHOOSE x \in S : \A y \in S : x <= y
Max(S) == CHOOSE x \in S : \A y \in S : x >= y

\* np.arange(n)
Arange(n) == [i \in 1..n |-> i - 1]

----------------------------------------------------------------------------
\* StorageType (an Enum whose values are classes) and isinstance.

StorageTypeMembers == <<"Array", "Masked", "Sparse">>

StorageTypeValue(m) ==
    CASE m = "Array" -> "ndarray"
      [] m = "Masked" -> "MaskedArray"
      [] m = "Sparse" -> "spmatrix"

\* The classes an instance of class `kind` is an instance of:
\* ma.MaskedArray subclasses np.ndarray.
ClassesOf(kind) ==
    CASE kind = "ndarray" -> {"ndarray"}
      [] kind = "MaskedArray" -> {"MaskedArray", "ndarray"}
      [] kind = "spmatrix" -> {"spmatrix"}
      [] OTHER -> {kind}

IsInstance(kind, cls) == cls \in ClassesOf(kind)

\* The for/else loop of AnnData.__init__: the first member that matches.
Classify(kind) ==
    LET hits == {i \in 1..Len(StorageTypeMembers) :
                    IsInstance(kind, StorageTypeValue(StorageTypeMembers[i]))}
    IN  IF hits = {} THEN Err("ValueError")
        ELSE Ok(StorageTypeMembers[Min(hits)])

----------------------------------------------------------------------------
\* BoundRecArr: a table is [cols |-> <<[name, vals], ...>>, name_col].

ColNames(cols) == {cols[i].name : i \in 1..Len(cols)}
TblNames(t) == ColNames(t.cols)
TblLen(t) == Len(t.cols[1].vals)
ColIdx(t, name) == CHOOSE i \in 1..Len(t.cols) : t.cols[i].name = name
Col(t, name) == t.cols[ColIdx(t, name)].vals

\* numpy assignment arr[name] = col into a field of n rows: equal lengths
\* copy, a length-1 value broadcasts, anything else raises ValueError.
Fits(vals, n) == Len(vals) = n \/ Len(vals) = 1
Broadcast(vals, n) == IF Len(vals) = n THEN vals ELSE [i \in 1..n |-> vals[1]]

\* BoundRecArr.__new__(cls, source, nr_row, name_col, parent)
BoundRecArrNew(source, nr_row, name_col) ==
    IF source.t \notin {"none", "rec", "map"} THEN Err("ValueError")
    ELSE
      LET idcol == [name |-> name_col, vals |-> Arange(nr_row)]
          cols == CASE source.t = "none" -> <<idcol>>
                    [] source.t = "rec" -> source.cols
                    [] source.t = "map" ->
                         IF name_col \in ColNames(source.cols)
                         THEN source.cols
                         ELSE Append(source.cols, idcol)
          n == Len(cols[1].vals)
      IN  IF \E i \in 1..Len(cols) : ~Fits(cols[i].vals, n)
          THEN Err("ValueError")
          ELSE Ok([cols |-> [i \in 1..Len(cols) |->
                               [name |-> cols[i].name,
                                vals |-> Broadcast(cols[i].vals, n)]],
                   name_col |-> name_col])

\* A mutation of CheckDimensions: the row count of smp is not compared.
CheckDimensionsVarOnly(nr_smp, nr_var, smp, var) ==
    IF TblLen(var) # nr_var THEN Err("ValueError") ELSE Ok(TRUE)

\* _check_dimensions(data, smp, var)
CheckDimensions(nr_smp, nr_var, smp, var) ==
    IF TblLen(smp) # nr_smp THEN Err("ValueError")
    ELSE IF TblLen(var) # nr_var THEN Err("ValueError")
    ELSE Ok(TRUE)

----------------------------------------------------------------------------
\* AnnData.__init__(self, X, smp, var, vis, **meta).  X is given by its class
\* (kind), its shape and, for rank 1 and 2, a view of a buffer.

NRows(obj) == Len(obj.X.rix)
NCols(obj) == Len(obj.X.cix)
Live(o) == objs[o] # NoObj

\* A mutation of Reshape2: a rank-1 array becomes a row, not a column.
Reshape2AsRow(shape) == IF Len(shape) = 1 THEN <<1, shape[1]>> ELSE shape

\* if len(X.shape) == 1: X.shape = (X.shape[0], 1)
Reshape2(shape) == IF Len(shape) = 1 THEN <<shape[1], 1>> ELSE shape

AnnDataInit(kind, shape, view, smp, var, vis, meta) ==
    LET cls == Classify(kind) IN
    IF ~cls.ok THEN Err("ValueError")
    ELSE IF Len(Reshape2(shape)) # 2 THEN Err("ValueError")
    ELSE
      LET shape2 == Reshape2(shape)
          nr_smp == shape2[1]
          nr_var == shape2[2]
          s == BoundRecArrNew(smp, nr_smp, SMP_NAMES)
      IN  IF ~s.ok THEN s
          ELSE LET v == BoundRecArrNew(var, nr_var, VAR_NAMES) IN
               IF ~v.ok THEN v
               ELSE LET chk == CheckDimensions(nr_smp, nr_var, s.val, v.val) IN
                    IF ~chk.ok THEN chk
                    ELSE Ok([kind |-> kind,
                             storage_type |-> cls.val,
                             X |-> IF Len(shape) = 1
                                   THEN [view EXCEPT
                                           !.rix = [i \in 1..nr_smp |-> i],
                                           !.cix = [i \in 1..nr_var |-> i]]
                                   ELSE view,
                             smp |-> s.val,
                             var |-> v.val,
                             vis |-> vis,
                             meta |-> meta])

----------------------------------------------------------------------------
\* Inputs of a construction.

\* The values of a column called `name` with n entries.
ColCode(name) ==
    CASE name = "a" -> 100
      [] name = "b" -> 200
      [] name = SMP_NAMES -> 300
      [] name = VAR_NAMES -> 400
      [] OTHER -> 500
ColVals(name, n) == [i \in 1..n |-> ColCode(name) + i]
MkCol(name, n) == [name |-> name, vals |-> ColVals(name, n)]

\* A freshly allocated array of shape (nr, nc) with pairwise distinct entries.
Iota(nr, nc) ==
    [nr |-> nr, nc |-> nc, free |-> FALSE,
     d |-> [r \in 1..nr |-> [c \in 1..nc |-> 10 * r + c]]]
WholeView(b, nr, nc) ==
    [buf |-> b, tr |-> FALSE, rix |-> [i \in 1..nr |-> i],
     cix |-> [i \in 1..nc |-> i]]

SrcNone == [t |-> "none"]
SrcOther == [t |-> "list"]
SrcRec(cols) == [t |-> "rec", cols |-> cols]
SrcMap(cols) == [t |-> "map", cols |-> cols]

Lens == 0..(MaxDim + 1)
\* Every mapping of at most two columns among a, b and the identity column,
\* each of any length in Lens; every record table of one or two columns.
SourcesAll(name_col) ==
    LET N == {"a", "b", name_col} IN
    {SrcNone, SrcOther, SrcMap(<<>>)}
    \cup {SrcMap(<<MkCol(x, i)>>) : x \in N, i \in Lens}
    \cup {SrcMap(<<MkCol(p[1], i), MkCol(p[2], j)>>) :
             p \in {q \in N \X N : q[1] # q[2]}, i \in Lens, j \in Lens}
    \cup {SrcRec(<<MkCol(name_col, i)>>) : i \in Lens}
    \cup {SrcRec(<<MkCol("a", i), MkCol(name_col, i)>>) : i \in Lens}

Kinds == {"ndarray", "MaskedArray", "spmatrix"}
Dims == 0..MaxDim
\* Shapes of rank 1, 2 and 3 (a sparse matrix always has rank 2).
ShapesOf(kind) ==
    {<<r, c>> : r \in Dims, c \in Dims}
    \cup (IF kind = "spmatrix" THEN {}
          ELSE {<<l>> : l \in Dims} \cup {<<1, 1, 1>>})

EmptyMeta == [k \in {} |-> 0]
MkInput(kind, shape, smp, var, vis, meta) ==
    [kind |-> kind, shape |-> shape, smp |-> smp, var |-> var,
     vis |-> vis, meta |-> meta]

\* Construction inputs explored exhaustively: one of the two metadata
\* arguments ranges over every source, the other is left out.
NewInputsAll ==
    {MkInput("list", <<MaxDim>>, SrcNone, SrcNone, {}, EmptyMeta)}
    \cup {MkInput(k, sh, s, SrcNone, {}, EmptyMeta) :
             k \in Kinds, sh \in UNION {ShapesOf(kk) : kk \in Kinds},
             s \in SourcesAll(SMP_NAMES)}
    \cup {MkInput(k, sh, SrcNone, v, {}, EmptyMeta) :
             k \in Kinds, sh \in UNION {ShapesOf(kk) : kk \in Kinds},
             v \in SourcesAll(VAR_NAMES)}

ValidInput(in) == in.kind = "list" \/ in.shape \in ShapesOf(in.kind)

\* AnnData(X, smp, var, vis, **meta) on a fresh X, the instance bound to slot
\* "m" and its storage to buffer "b1".
NewResult(in) ==
    LET sh == in.shape
        nr == IF Len(sh) >= 1 THEN sh[1] ELSE 0
        nc == IF Len(sh) = 2 THEN sh[2] ELSE 1
    IN  AnnDataInit(in.kind, sh, WholeView("b1", nr, nc),
                    in.smp, in.var, in.vis, in.meta)


New(in) ==
    /\ ValidInput(in)
    /\ \A o \in Slots : objs[o] = NoObj
    /\ LET r == NewResult(in) IN
       /\ objs' = IF r.ok
                  THEN [objs EXCEPT !["m"] = r.val @@ [org |-> "root"]]
                  ELSE objs
       /\ bufs' = IF r.ok
                  THEN [bufs EXCEPT !["b1"] =
                          Iota(Len(r.val.X.rix), Len(r.val.X.cix))]
                  ELSE bufs
       /\ last' = IF r.ok
                  THEN [op |-> "init", in |-> in, ok |-> TRUE, err |-> "none"]
                  ELSE [op |-> "init", in |-> in, ok |-> FALSE, err |-> r.err]
    /\ UNCHANGED <<ref, ops>>

Init ==
    /\ objs = [o \in Slots |-> NoObj]
    /\ bufs = [b \in BufIds |-> NoBuf]
    /\ ref = NoRef
    /\ last = [op |-> "none", ok |-> TRUE, err |-> "none"]
    /\ ops = 0

\* The client's first statement constructs an AnnData from scratch.
NextNew ==
    /\ last.op = "none"
    /\ \E in \in NewInputsAll : New(in)

SpecNew == Init /\ [][NextNew]_vars

----------------------------------------------------------------------------
\* Storage: element (r, c) of a view of a buffer, and an AnnData's X as values.

Elem(B, v, r, c) ==
    IF v.tr THEN B.d[v.cix[c]][v.rix[r]] ELSE B.d[v.rix[r]][v.cix[c]]

XValuesIn(bs, obj) ==
    [r \in 1..NRows(obj) |->
        [c \in 1..NCols(obj) |-> Elem(bs[obj.X.buf], obj.X, r, c)]]
XValues(obj) == XValuesIn(bufs, obj)

----------------------------------------------------------------------------
\* Index selectors and AnnData._unpack_index.

SelInt(i) == [t |-> "int", i |-> i]
SelFull == [t |-> "full"]
SelSlice(lo, hi) == [t |-> "slice", lo |-> lo, hi |-> hi]
SelList(ix) == [t |-> "list", ix |-> ix]
SelMask(m) == [t |-> "mask", m |-> m]

RECURSIVE NonzeroFrom(_, _)
NonzeroFrom(m, i) ==
    IF i > Len(m) THEN <<>>
    ELSE (IF m[i] THEN <<i - 1>> ELSE <<>>) \o NonzeroFrom(m, i + 1)

\* IndexMixin._unpack_index / _check_boolean: a boolean mask becomes the
\* array of its True positions.
MixinUnpackIndex(sel) ==
    IF sel.t = "mask" THEN SelList(NonzeroFrom(sel.m, 1)) ELSE sel

\* if isinstance(smp, int): smp = slice(smp, smp+1)
IntToSlice(sel) ==
    IF sel.t = "int" THEN SelSlice(sel.i, sel.i + 1) ELSE sel

\* AnnData._unpack_index applied to one selector of the pair.
UnpackIndex(sel) == IntToSlice(MixinUnpackIndex(sel))

\* Python's slice.indices with step 1, as 1-based positions.
ClipIdx(i, n) == IF i < 0 THEN Max({i + n, 0}) ELSE Min({i, n})
SliceIdx(sel, n) ==
    IF sel.t = "full" THEN [k \in 1..n |-> k]
    ELSE LET lo == ClipIdx(sel.lo, n)
             hi == ClipIdx(sel.hi, n)
         IN  [k \in 1..(IF hi > lo THEN hi - lo ELSE 0) |-> lo + k]

\* An integer array index: each entry in -n..n-1, negative ones wrap.
ListOk(ix, n) == \A k \in 1..Len(ix) : -n <= ix[k] /\ ix[k] < n
ListIdx(ix, n) ==
    [k \in 1..Len(ix) |-> (IF ix[k] < 0 THEN ix[k] + n ELSE ix[k]) + 1]

\* The common length of two index arrays of lengths a and b (equal, or one
\* of them 1), by numpy's broadcasting.
BroadcastLen(a, b) == IF a = 1 THEN b ELSE a

IsArr(u) == u.t = "list"
IdxOk(u, n) == IsArr(u) => ListOk(u.ix, n)
Positions(u, n) == IF IsArr(u) THEN ListIdx(u.ix, n) ELSE SliceIdx(u, n)

\* self.X[smp, var]: the shape, and whether numpy returns a view (both
\* selectors slices, dense storage) or a copy.  Two index arrays select
\* pointwise: a rank-1 result for dense storage, a 1 x k np.matrix for a
\* sparse matrix.
IndexX(bs, obj, ur, uc) ==
    LET nr == NRows(obj)
        nc == NCols(obj)
    IN
    IF ~IdxOk(ur, nr) \/ ~IdxOk(uc, nc) THEN Err("IndexError")
    ELSE
      LET rp == Positions(ur, nr)
          cp == Positions(uc, nc)
          B == bs[obj.X.buf]
      IN
      IF IsArr(ur) /\ IsArr(uc)
      THEN IF Len(rp) # Len(cp) /\ Len(rp) # 1 /\ Len(cp) # 1
           THEN Err("IndexError")
           ELSE LET k == BroadcastLen(Len(rp), Len(cp))
                    pr(j) == IF Len(rp) = 1 THEN rp[1] ELSE rp[j]
                    pc(j) == IF Len(cp) = 1 THEN cp[1] ELSE cp[j]
                    pts == [j \in 1..k |-> Elem(B, obj.X, pr(j), pc(j))]
                IN  IF obj.kind = "spmatrix"
                    THEN Ok([shape |-> <<1, k>>, copy |-> TRUE,
                             kind |-> "ndarray", block |-> <<pts>>])
                    ELSE Ok([shape |-> <<k>>, copy |-> TRUE,
                             kind |-> obj.kind, block |-> pts])
      ELSE Ok([shape |-> <<Len(rp), Len(cp)>>,
               copy |-> (IsArr(ur) \/ IsArr(uc) \/ obj.kind = "spmatrix"),
               kind |-> obj.kind,
               block |-> [r \in 1..Len(rp) |->
                            [c \in 1..Len(cp) |->
                                Elem(B, obj.X, rp[r], cp[c])]]])

\* self.smp[smp]: the rows of a table at the given positions.
TblTake(t, pos) ==
    [i \in 1..Len(t.cols) |->
        [name |-> t.cols[i].name,
         vals |-> [k \in 1..Len(pos) |-> t.cols[i].vals[pos[k]]]]]

\* Names of AnnData.__init__'s own parameters: **self._meta holding one of
\* them is a TypeError (multiple values for the argument).
ParamNames == {"self", "X", "smp", "var", "vis"}
KwCollides(meta) == (DOMAIN meta) \cap ParamNames # {}

\* AnnData.__getitem__(index).  nb names the buffer a copy is stored in.
\* The result is a scalar-metadata value or a new instance with the storage
\* block a copy holds.
GetItem(bs, obj, index, nb) ==
    IF index.t = "str"
    THEN IF index.key \in DOMAIN obj.meta
         THEN Ok([what |-> "value", v |-> obj.meta[index.key]])
         ELSE Err("KeyError")
    ELSE
      LET ur == UnpackIndex(index.rs)
          uc == UnpackIndex(index.cs)
          data == IndexX(bs, obj, ur, uc)
      IN
      IF ~data.ok THEN data
      ELSE
        LET rp == Positions(ur, NRows(obj))
            cp == Positions(uc, NCols(obj))
            sh == data.val.shape
        IN
        IF Len(rp) # sh[1] THEN Err("AssertionError")
        ELSE IF Len(sh) < 2 THEN Err("IndexError")
        ELSE IF Len(cp) # sh[2] THEN Err("AssertionError")
        ELSE IF KwCollides(obj.meta) THEN Err("TypeError")
        ELSE
          LET view == IF data.val.copy
                      THEN WholeView(nb, sh[1], sh[2])
                      ELSE [buf |-> obj.X.buf, tr |-> obj.X.tr,
                            rix |-> [k \in 1..Len(rp) |-> obj.X.rix[rp[k]]],
                            cix |-> [k \in 1..Len(cp) |-> obj.X.cix[cp[k]]]]
              new == AnnDataInit(data.val.kind, sh, view,
                                 SrcRec(TblTake(obj.smp, rp)),
                                 SrcRec(TblTake(obj.var, cp)),
                                 obj.vis, obj.meta)
          IN  IF ~new.ok THEN new
              ELSE Ok([what |-> "anndata", obj |-> new.val,
                       copy |-> data.val.copy, block |-> data.val.block])

IdxStr(k) == [t |-> "str", key |-> k]
IdxPair(rs, cs) == [t |-> "pair", rs |-> rs, cs |-> cs]

\* AnnData.__contains__ and AnnData.get
Contains(obj, item) == item \in DOMAIN obj.meta
Get(obj, key, default) ==
    IF key \in DOMAIN obj.meta THEN obj.meta[key] ELSE default

----------------------------------------------------------------------------
\* AnnData.transpose

RenameCols(cols, from, to) ==
    [i \in 1..Len(cols) |->
        [name |-> IF cols[i].name = from THEN to ELSE cols[i].name,
         vals |-> cols[i].vals]]
\* dtype.names = [...] raises ValueError on duplicate field names.
DupNames(cols) == Cardinality(ColNames(cols)) # Len(cols)

TransposeBlock(bs, obj) ==
    [r \in 1..NCols(obj) |->
        [c \in 1..NRows(obj) |-> Elem(bs[obj.X.buf], obj.X, c, r)]]

\* share: X.T is a view of X's memory (always so for dense storage).
Transpose(bs, obj, share, nb) ==
    LET smp == RenameCols(obj.var.cols, VAR_NAMES, SMP_NAMES)
        var == RenameCols(obj.smp.cols, SMP_NAMES, VAR_NAMES)
    IN
    IF DupNames(smp) \/ DupNames(var) THEN Err("ValueError")
    ELSE IF KwCollides(obj.meta) THEN Err("TypeError")
    ELSE
      LET view == IF share
                  THEN [buf |-> obj.X.buf, tr |-> ~obj.X.tr,
                        rix |-> obj.X.cix, cix |-> obj.X.rix]
                  ELSE WholeView(nb, NCols(obj), NRows(obj))
          new == AnnDataInit(obj.kind, <<NCols(obj), NRows(obj)>>, view,
                             SrcRec(smp), SrcRec(var),
                             obj.vis, obj.meta)
      IN  IF ~new.ok THEN new
          ELSE Ok([what |-> "anndata", obj |-> new.val, copy |-> ~share,
                   block |-> TransposeBlock(bs, obj)])

----------------------------------------------------------------------------
\* BoundRecArr.__setitem__ and AnnData.__setitem__ / __delitem__

\* bool(self._parent): AnnData defines __len__ and no __bool__, so an
\* instance with no rows is falsy.
Truthy(obj) == NRows(obj) # 0

\* append_fields(self, [key], [value], usemask=False): the shorter of the
\* base and the new column is padded with the fill value.
AppendFields(cols, key, value, n) ==
    Append(cols, [name |-> key,
                  vals |-> [i \in 1..n |->
                              IF i <= Len(value) THEN value[i] ELSE Fill]])

\* np.recarray's own arr[key] = value
SetField(t, key, value) ==
    IF key \notin TblNames(t) THEN Err("ValueError")
    ELSE IF ~Fits(value, TblLen(t)) THEN Err("ValueError")
    ELSE Ok([how |-> "inplace",
             tbl |-> [t EXCEPT !.cols[ColIdx(t, key)].vals =
                                  Broadcast(value, TblLen(t))]])

\* BoundRecArr.__setitem__(self, key, value); parent is the table's _parent.
TblSetItem(t, parent, key, value) ==
    IF Truthy(parent) /\ key \notin TblNames(t)
    THEN IF Len(value) > TblLen(t) THEN Err("ValueError")
         ELSE LET source == AppendFields(t.cols, key, value, TblLen(t))
                  new == BoundRecArrNew(SrcRec(source), TblLen(t), t.name_col)
              IN  IF ~new.ok THEN new
                  ELSE Ok([how |-> "setattr",
                           attr |-> IF t.name_col = SMP_NAMES
                                    THEN "smp" ELSE "var",
                           tbl |-> new.val])
    ELSE SetField(t, key, value)

\* A mutation of SetMeta: the string key is taken for a matrix index,
\* addressing nothing, and the value is written to the storage.
SetMetaAsIndex(obj, key, val) == obj.meta

\* self._meta[index] = val
SetMeta(obj, key, val) ==
    [k \in (DOMAIN obj.meta) \cup {key} |->
        IF k = key THEN val ELSE obj.meta[k]]

\* self.X[samp, feat] = val for a scalar val: the buffer after the write.
SetX(bs, obj, index, val) ==
    LET ur == UnpackIndex(index.rs)
        uc == UnpackIndex(index.cs)
        nr == NRows(obj)
        nc == NCols(obj)
    IN
    IF ~IdxOk(ur, nr) \/ ~IdxOk(uc, nc) THEN Err("IndexError")
    ELSE
      LET rp == Positions(ur, nr)
          cp == Positions(uc, nc)
          both == IsArr(ur) /\ IsArr(uc)
      IN
      IF both /\ Len(rp) # Len(cp) /\ Len(rp) # 1 /\ Len(cp) # 1
      THEN Err("IndexError")
      ELSE
        LET cells ==
              IF both
              THEN {<<IF Len(rp) = 1 THEN rp[1] ELSE rp[j],
                      IF Len(cp) = 1 THEN cp[1] ELSE cp[j]>> :
                       j \in 1..BroadcastLen(Len(rp), Len(cp))}
              ELSE {<<rp[i], cp[j]>> : i \in 1..Len(rp), j \in 1..Len(cp)}
            at == {IF obj.X.tr
                   THEN <<obj.X.cix[x[2]], obj.X.rix[x[1]]>>
                   ELSE <<obj.X.rix[x[1]], obj.X.cix[x[2]]>> : x \in cells}
            B == bs[obj.X.buf]
        IN  Ok([B EXCEPT !.d = [i \in 1..B.nr |-> [j \in 1..B.nc |->
                        IF <<i, j>> \in at THEN val ELSE B.d[i][j]]]])

----------------------------------------------------------------------------
\* The operations a client performs, each on the instance in slot o.

Bump == ops < MaxOps /\ ops' = ops + 1

\* Buffers no instance refers to are released.
Release(os, bs) ==
    [b \in BufIds |->
        IF \E o \in Slots : os[o] # NoObj /\ os[o].X.buf = b
        THEN bs[b] ELSE NoBuf]

FreshBuf(o) == OtherBuf(objs[o].X.buf)

\* Bind the instance a getitem or a transpose returned to the other slot.
Bound(src, o, res, org) ==
    LET x == OtherSlot(o)
        new == [org |-> org] @@ res.val.obj
        os == [objs EXCEPT ![x] = new, ![o] = [src EXCEPT !.org = "root"]]
        sh == <<NRows(new), NCols(new)>>
        bs == IF res.val.copy
              THEN [bufs EXCEPT ![new.X.buf] =
                      [nr |-> sh[1], nc |-> sh[2], free |-> FALSE,
                       d |-> res.val.block]]
              ELSE bufs
    IN  /\ objs' = os
        /\ bufs' = Release(os, bs)
        /\ ref' = IF ref.owner = x THEN NoRef ELSE ref

\* s = m[rs, cs]
GetItemAct(o, rs, cs) ==
    /\ Live(o)
    /\ Bump
    /\ LET res == GetItem(bufs, objs[o], IdxPair(rs, cs), FreshBuf(o)) IN
       /\ IF res.ok THEN Bound(objs[o], o, res, "getitem")
          ELSE UNCHANGED <<objs, bufs, ref>>
       /\ last' = [op |-> "getitem", o |-> o, rs |-> rs, cs |-> cs,
                   ok |-> res.ok, err |-> IF res.ok THEN "none" ELSE res.err]

\* smp.dtype.names = [...] on the copy np.rec.array made: when the copy
\* shares its dtype object with self.var, the source's field is renamed too.
RenamedInPlace(obj) ==
    LET smp == RenameCols(obj.var.cols, VAR_NAMES, SMP_NAMES)
        var == RenameCols(obj.smp.cols, SMP_NAMES, VAR_NAMES)
    IN  IF DupNames(smp) THEN obj
        ELSE IF DupNames(var) THEN [obj EXCEPT !.var.cols = smp]
        ELSE [obj EXCEPT !.var.cols = smp, !.smp.cols = var]

\* s = m.T.  Whether the dtype object is shared (alias) and, for a sparse
\* matrix, whether X.T shares X's arrays (share) depend on the numpy and
\* scipy build.
TransposeAct(o, alias, share) ==
    /\ Live(o)
    /\ Bump
    /\ objs[o].kind # "spmatrix" => share
    /\ LET res == Transpose(bufs, objs[o], share, FreshBuf(o))
           src == IF alias THEN RenamedInPlace(objs[o]) ELSE objs[o]
       IN
       /\ IF res.ok THEN Bound(src, o, res, "T")
          ELSE /\ objs' = [objs EXCEPT ![o] = src]
               /\ UNCHANGED <<bufs, ref>>
       /\ last' = [op |-> "T", o |-> o, alias |-> alias,
                   ok |-> res.ok, err |-> IF res.ok THEN "none" ELSE res.err]

\* m[rs, cs] = val
SetItemAct(o, rs, cs, val) ==
    /\ Live(o)
    /\ Bump
    /\ LET res == SetX(bufs, objs[o], IdxPair(rs, cs), val) IN
       /\ bufs' = IF res.ok THEN [bufs EXCEPT ![objs[o].X.buf] = res.val]
                  ELSE bufs
       /\ last' = [op |-> "setitem", o |-> o, rs |-> rs, cs |-> cs,
                   ok |-> res.ok, err |-> IF res.ok THEN "none" ELSE res.err]
    /\ UNCHANGED <<objs, ref>>

\* m[key] = val for a string key
SetMetaAct(o, key, val) ==
    /\ Live(o)
    /\ Bump
    /\ objs' = [objs EXCEPT ![o].meta = SetMeta(objs[o], key, val)]
    /\ last' = [op |-> "setmeta", o |-> o, key |-> key, val |-> val,
                ok |-> TRUE, err |-> "none"]
    /\ UNCHANGED <<bufs, ref>>

\* del m[rs, cs]: `del self.X[smp, var]` raises for every storage class
\* (numpy arrays cannot delete elements, spmatrix defines no __delitem__),
\* before anything is changed.
DelItemAct(o, rs, cs) ==
    /\ Live(o)
    /\ Bump
    /\ last' = [op |-> "del", o |-> o, rs |-> rs, cs |-> cs,
                ok |-> FALSE,
                err |-> IF objs[o].kind = "spmatrix"
                        THEN "TypeError" ELSE "ValueError"]
    /\ UNCHANGED <<objs, bufs, ref>>

Slot(obj, attr) == IF attr = "smp" THEN obj.smp ELSE obj.var
WithSlot(obj, attr, t) ==
    IF attr = "smp" THEN [obj EXCEPT !.smp = t] ELSE [obj EXCEPT !.var = t]

\* The effect of table.__setitem__ on the owner and on the held reference.
\* The table is the one in the owner's slot (stale = FALSE) or the table
\* object a held reference still points to (stale = TRUE).
TblWrite(o, attr, stale, t, key, value, via) ==
    LET res == TblSetItem(t, objs[o], key, value)
        held == ref.owner = o /\ ref.attr = attr
    IN
    /\ last' = [op |-> "tblset", via |-> via, o |-> o, attr |-> attr,
                key |-> key, len |-> Len(value), isnew |-> key \notin TblNames(t),
                ok |-> res.ok, err |-> IF res.ok THEN "none" ELSE res.err]
    /\ IF ~res.ok THEN UNCHANGED <<objs, ref>>
       ELSE IF res.val.how = "setattr"
       THEN \* setattr(self._parent, attr, new)
            /\ objs' = [objs EXCEPT ![o] = WithSlot(@, res.val.attr, res.val.tbl)]
            /\ ref' = IF held /\ ~ref.stale
                      THEN [ref EXCEPT !.stale = TRUE, !.tbl = t]
                      ELSE ref
       ELSE IF stale
       THEN /\ ref' = [ref EXCEPT !.tbl = res.val.tbl]
            /\ UNCHANGED objs
       ELSE /\ objs' = [objs EXCEPT ![o] = WithSlot(@, attr, res.val.tbl)]
            /\ UNCHANGED ref
    /\ UNCHANGED bufs

\* m.smp[key] = value / m.var[key] = value
TblSetAct(o, attr, key, n) ==
    /\ Live(o)
    /\ Bump
    /\ TblWrite(o, attr, FALSE, Slot(objs[o], attr), key, ColVals(key, n), "owner")

\* m.smp_names = keys / m.var_names = keys
SetNamesAct(o, attr, n) ==
    /\ Live(o)
    /\ Bump
    /\ LET name == IF attr = "smp" THEN SMP_NAMES ELSE VAR_NAMES IN
       TblWrite(o, attr, FALSE, Slot(objs[o], attr), name,
                ColVals(name, n), "names")

\* t = m.smp / t = m.var: the client keeps a reference to the table.
GetRefAct(o, attr) ==
    /\ Live(o)
    /\ ref = NoRef
    /\ ops = 0
    /\ ref' = [owner |-> o, attr |-> attr, stale |-> FALSE, tbl |-> NoTbl]
    /\ UNCHANGED <<objs, bufs, last, ops>>

\* t[key] = value through the held reference
RefSetAct(key, n) ==
    /\ ref # NoRef
    /\ Bump
    /\ TblWrite(ref.owner, ref.attr, ref.stale,
                IF ref.stale THEN ref.tbl ELSE Slot(objs[ref.owner], ref.attr),
                key, ColVals(key, n), "ref")

----------------------------------------------------------------------------
\* The client program: one construction, then at most MaxOps operations.

Square == <<MaxDim, MaxDim>>
\* Constructions the client program starts from: dense arrays with no or
\* MaxDim rows and columns, a sparse matrix, an array with a metadata column and a keyword,
\* and a record table one row too long.
NewInputs ==
    {MkInput("ndarray", <<r, c>>, SrcNone, SrcNone, {}, EmptyMeta) :
        r \in {0, MaxDim}, c \in {0, MaxDim}}
    \cup {MkInput("spmatrix", Square, SrcNone, SrcNone, {}, EmptyMeta),
          MkInput("MaskedArray", Square, SrcMap(<<MkCol("a", MaxDim)>>),
                  SrcNone, {"a"}, [k \in {"k"} |-> 1]),
          MkInput("ndarray", Square,
                  SrcRec(<<MkCol(SMP_NAMES, MaxDim + 1)>>), SrcNone,
                  {}, EmptyMeta)}

\* Selector pairs the client slices with.
SelPairs(nr, nc) ==
    {<<SelInt(0), SelFull>>,
     <<SelFull, SelInt(-1)>>,
     <<SelList(<<nr - 1, 0>>), SelFull>>,
     <<SelMask([i \in 1..nr |-> i = 1]), SelList(<<0>>)>>}

\* Index pairs the client writes storage at.
WritePairs == {<<SelInt(0), SelInt(0)>>}

MetaKeys == {"k", "smp"}
ColKeys == {"a", "b"}
\* The columns the client assigns to a table of n rows, as <<key, length>>:
\* a full, a short and a too long column a, and a full column b.
ColWrites(attr, n) ==
    IF attr = "smp"
    THEN {<<"a", n>>, <<"a", n + 1>>, <<"b", n>>}
         \cup (IF n > 0 THEN {<<"a", n - 1>>} ELSE {})
    ELSE {<<"a", n>>}
\* The lengths of the names the client assigns.
NameLens(attr, n) == IF attr = "smp" THEN {n, n + 1} ELSE {n}

Construct ==
    /\ last.op = "none"
    /\ \E in \in NewInputs : New(in)

\* s = m[rs, cs] on the instance in one of the slots
GetItemStep ==
    \E o \in Slots :
        /\ Live(o)
        /\ \E p \in SelPairs(NRows(objs[o]), NCols(objs[o])) :
              GetItemAct(o, p[1], p[2])

\* s = m.T
TransposeStep ==
    \E o \in Slots, alias \in BOOLEAN, share \in BOOLEAN :
        TransposeAct(o, alias, share)

\* m[0, 0] = 0
SetItemStep ==
    \E o \in Slots, p \in WritePairs : SetItemAct(o, p[1], p[2], 0)

\* m[k] = 2
SetMetaStep ==
    \E o \in Slots, k \in MetaKeys : SetMetaAct(o, k, 2)

\* del m[0, :]
DelItemStep ==
    \E o \in Slots : DelItemAct(o, SelInt(0), SelFull)

\* m.smp[key] = values / m.var[key] = values
TblSetStep ==
    \E o \in Slots, attr \in {"smp", "var"} :
        /\ Live(o)
        /\ \E w \in ColWrites(attr, TblLen(Slot(objs[o], attr))) :
              TblSetAct(o, attr, w[1], w[2])

\* m.smp_names = keys / m.var_names = keys
SetNamesStep ==
    \E o \in Slots, attr \in {"smp", "var"} :
        /\ Live(o)
        /\ \E n \in NameLens(attr, TblLen(Slot(objs[o], attr))) :
              SetNamesAct(o, attr, n)

\* t = m.smp / t = m.var
GetRefStep ==
    \E o \in Slots, attr \in {"smp", "var"} : GetRefAct(o, attr)

\* t[key] = values through the held table reference
RefSetStep ==
    /\ ref # NoRef
    /\ \E key \in ColKeys :
          RefSetAct(key, TblLen(Slot(objs[ref.owner], ref.attr)))

Next ==
    \/ Construct
    \/ GetItemStep
    \/ TransposeStep
    \/ SetItemStep
    \/ SetMetaStep
    \/ DelItemStep
    \/ TblSetStep
    \/ SetNamesStep
    \/ GetRefStep
    \/ RefSetStep

Spec == Init /\ [][Next]_vars

----------------------------------------------------------------------------
\* Claims about construction, checked under SpecNew.

InitDone == last.op = "init"
InRows(in) == in.shape[1]
InCols(in) == IF Len(in.shape) = 2 THEN in.shape[2] ELSE 1
\* Some column of the mapping or record table has a length other than n.
Disagrees(src, n) ==
    /\ src.t \in {"map", "rec"}
    /\ \E i \in 1..Len(src.cols) : Len(src.cols[i].vals) # n

\* C2: constructing from a 2-D storage of shape (r, c) with row (resp.
\* column) metadata in which some column's length differs from r (resp. c)
\* fails with ValueError, whichever column it is and whatever its length.
C2_RejectsDisagreeingMetadata ==
    (/\ InitDone
     /\ last.in.kind \in Kinds
     /\ Len(last.in.shape) = 2
     /\ \/ Disagrees(last.in.smp, InRows(last.in))
        \/ Disagrees(last.in.var, InCols(last.in)))
    => (~last.ok /\ last.err = "ValueError")

ExpectedStorageType(kind) ==
    CASE kind = "ndarray" -> "Array"
      [] kind = "MaskedArray" -> "Masked"
      [] kind = "spmatrix" -> "Sparse"
      [] OTHER -> "none"

\* C5: a dense array is classified Array, a masked array Masked, a sparse
\* matrix Sparse; a value of none of the three types fails with ValueError.
C5_StorageKindClassification ==
    InitDone =>
      /\ last.in.kind \notin Kinds => (~last.ok /\ last.err = "ValueError")
      /\ last.ok => objs["m"].storage_type = ExpectedStorageType(last.in.kind)

Rank1NoMetadata(in) ==
    /\ in.kind \in Kinds
    /\ Len(in.shape) = 1
    /\ in.smp = SrcNone
    /\ in.var = SrcNone

----------------------------------------------------------------------------
\* Claims about the client program, checked under Spec.

OpStep == ops' = ops + 1

\* C1: in every instance reachable by construction, slicing, transposition,
\* column appends (short ones included), name assignment, storage and
\* metadata writes and deletion, len(smp) = X.shape[0] and
\* len(var) = X.shape[1].
C1_ShapeInvariant ==
    \A o \in Slots :
        Live(o) => /\ TblLen(objs[o].smp) = NRows(objs[o])
                   /\ TblLen(objs[o].var) = NCols(objs[o])

\* A short column was appended to the table of a sliced instance.
C1_Witness ==
    /\ last.op = "tblset"
    /\ last.ok
    /\ last.isnew
    /\ last.len < TblLen(Slot(objs[last.o], last.attr))
    /\ objs[last.o].org = "getitem"
    /\ C1_ShapeInvariant

\* The positions (1-based) a valid selector addresses among n entries.
Selected(sel, n) ==
    CASE sel.t = "int" -> <<(IF sel.i < 0 THEN sel.i + n ELSE sel.i) + 1>>
      [] sel.t = "list" -> ListIdx(sel.ix, n)
      [] sel.t = "mask" -> [k \in 1..Len(NonzeroFrom(sel.m, 1)) |->
                              NonzeroFrom(sel.m, 1)[k] + 1]
      [] OTHER -> SliceIdx(sel, n)

\* Valid selectors of a dimension of n entries: integers addressing an
\* existing position, slices, ordered integer lists, boolean masks.
ValidSels(n) ==
    {SelFull, SelSlice(1, n), SelSlice(0, n - 1)}
    \cup (IF n = 0 THEN {}
          ELSE {SelInt(0), SelInt(n - 1), SelInt(-1), SelInt(-n),
                SelList(<<0>>), SelList(<<n - 1, 0>>),
                SelMask([i \in 1..n |-> i = 1]),
                SelMask([i \in 1..n |-> i # 1])})

\* The storage a getitem or transpose result holds.
ResultX(res) ==
    IF res.val.copy THEN res.val.block ELSE XValuesIn(bufs, res.val.obj)

SliceIsRight(obj, rs, cs, nb) ==
    LET res == GetItem(bufs, obj, IdxPair(rs, cs), nb)
        rsel == Selected(rs, NRows(obj))
        csel == Selected(cs, NCols(obj))
    IN  /\ res.ok
        /\ res.val.what = "anndata"
        /\ NRows(res.val.obj) = Len(rsel)
        /\ NCols(res.val.obj) = Len(csel)
        /\ ResultX(res) = [r \in 1..Len(rsel) |-> [c \in 1..Len(csel) |->
                              XValues(obj)[rsel[r]][csel[c]]]]
        /\ res.val.obj.smp.cols = TblTake(obj.smp, rsel)
        /\ res.val.obj.var.cols = TblTake(obj.var, csel)

\* C4: m[rs, cs] for valid selectors is a new instance of shape (rows
\* selected, columns selected) holding the selected block, with every
\* metadata column restricted to the selection; an integer selects one row.
C4_SlicingResult ==
    \A o \in Slots :
        Live(o) =>
          \A rs \in ValidSels(NRows(objs[o])), cs \in ValidSels(NCols(objs[o])) :
              SliceIsRight(objs[o], rs, cs, FreshBuf(o))

\* The buffers once the result of a getitem or a transpose is stored.
Stored(res) ==
    IF res.val.copy
    THEN [bufs EXCEPT ![res.val.obj.X.buf] =
            [nr |-> NRows(res.val.obj), nc |-> NCols(res.val.obj),
             free |-> FALSE, d |-> res.val.block]]
    ELSE bufs

TransposeIsInvolution(obj, share, nb) ==
    LET t1 == Transpose(bufs, obj, share, nb) IN
    /\ t1.ok
    /\ t1.val.obj.smp.cols = RenameCols(obj.var.cols, VAR_NAMES, SMP_NAMES)
    /\ t1.val.obj.var.cols = RenameCols(obj.smp.cols, SMP_NAMES, VAR_NAMES)
    /\ LET t2 == Transpose(Stored(t1), t1.val.obj, TRUE, nb) IN
       /\ t2.ok
       /\ XValuesIn(Stored(t1), t2.val.obj) = XValues(obj)
       /\ t2.val.obj.smp = obj.smp
       /\ t2.val.obj.var = obj.var
       /\ t2.val.obj.vis = obj.vis
       /\ t2.val.obj.meta = obj.meta

\* C7: m.T succeeds, carries the column table as row table (and vice versa)
\* with the identity column renamed, and m.T.T has the storage values,
\* tables, vis and scalar metadata of m.
C7_TransposeInvolution ==
    \A o \in Slots :
        Live(o) =>
          \A share \in {TRUE} \cup (IF objs[o].kind = "spmatrix" THEN {FALSE} ELSE {}) :
              TransposeIsInvolution(objs[o], share, FreshBuf(o))

\* The step bound a new instance to slot o.
Rebound(o) ==
    /\ OpStep
    /\ last'.op \in {"getitem", "T"}
    /\ last'.ok
    /\ OtherSlot(last'.o) = o

MetaReads(bs, obj, k, v) ==
    /\ GetItem(bs, obj, IdxStr(k), "b1") = Ok([what |-> "value", v |-> v])
    /\ Contains(obj, k)
    /\ Get(obj, k, "d") = v
MetaMisses(bs, obj, k) ==
    /\ GetItem(bs, obj, IdxStr(k), "b1") = Err("KeyError")
    /\ ~Contains(obj, k)
    /\ Get(obj, k, "d") = "d"

\* C8: the scalar metadata is a key -> value map.  A keyword given at
\* construction or a string-key write m[k] = v makes m[k] = v, k in m and
\* m.get(k, d) = v, and leaves the other keys, X, smp and var as they were;
\* no other operation on the instance changes its metadata; a key never
\* written is absent: not in m, get gives the default, m[k] is a KeyError.
C8_ScalarMetadata ==
    [][ /\ (last.op = "none" /\ last'.op = "init" /\ last'.ok) =>
             \A k \in MetaKeys \cup {"missing"} :
                IF k \in DOMAIN last'.in.meta
                THEN MetaReads(bufs', objs'["m"], k, last'.in.meta[k])
                ELSE MetaMisses(bufs', objs'["m"], k)
        /\ \A o \in Slots :
             (Live(o) /\ ~Rebound(o)) =>
                IF OpStep /\ last'.op = "setmeta" /\ last'.o = o
                THEN /\ MetaReads(bufs', objs'[o], last'.key, last'.val)
                     /\ \A k \in (MetaKeys \cup {"missing"}) \ {last'.key} :
                          IF Contains(objs[o], k)
                          THEN MetaReads(bufs', objs'[o], k, objs[o].meta[k])
                          ELSE MetaMisses(bufs', objs'[o], k)
                     /\ objs'[o].X = objs[o].X
                     /\ objs'[o].smp = objs[o].smp
                     /\ objs'[o].var = objs[o].var
                     /\ bufs' = bufs
                ELSE \A k \in MetaKeys \cup {"missing"} :
                          IF Contains(objs[o], k)
                          THEN MetaReads(bufs', objs'[o], k, objs[o].meta[k])
                          ELSE MetaMisses(bufs', objs'[o], k)
      ]_vars

\* The keyword k=1 given at construction was overwritten by m["k"] = 2.
C8_Witness ==
    /\ last.op = "setmeta"
    /\ last.key = "k"
    /\ objs[last.o].kind = "MaskedArray"
    /\ objs[last.o].org = "root"
    /\ MetaReads(bufs, objs[last.o], "k", 2)
    /\ MetaMisses(bufs, objs[last.o], "smp")

\* C3: on a bound table of n rows, table[name] = values for a new name
\* succeeds when len(values) <= n, and then the owner's slot holds a table
\* with the new column and the other columns as before; it fails with
\* ValueError when len(values) > n, and then the owner's slot is unchanged.
C3_ColumnAppendWriteBack ==
    [][ (OpStep /\ last'.op = "tblset" /\ last'.via = "owner" /\ last'.isnew) =>
          LET before == Slot(objs[last'.o], last'.attr)
              after == Slot(objs'[last'.o], last'.attr)
          IN  IF last'.len <= TblLen(before)
              THEN /\ last'.ok
                   /\ last'.key \in TblNames(after)
                   /\ \A c \in TblNames(before) :
                        c \in TblNames(after) /\ Col(after, c) = Col(before, c)
              ELSE /\ ~last'.ok
                   /\ last'.err = "ValueError"
                   /\ after = before
      ]_vars

\* C10: a successful column append, through the owner's table or through a
\* reference obtained earlier, never removes a column from the owner's slot.
C10_AppendsAccumulate ==
    [][ (OpStep /\ last'.op = "tblset" /\ last'.isnew /\ last'.ok) =>
          /\ last'.key \in TblNames(Slot(objs'[last'.o], last'.attr))
          /\ \A c \in ColKeys :
               c \in TblNames(Slot(objs[last'.o], last'.attr))
                 => c \in TblNames(Slot(objs'[last'.o], last'.attr))
      ]_vars

\* Slot x holds a slice of the instance in the other slot, or the other
\* slot holds a slice of the instance in x.
SliceRelated(x) ==
    /\ Live(x)
    /\ Live(OtherSlot(x))
    /\ \/ objs[x].org = "getitem"
       \/ objs[OtherSlot(x)].org = "getitem"

\* C9: after s = m[sel], a storage write on either instance leaves the
\* other's X unchanged, and a column append or name assignment on either
\* leaves the other's tables unchanged.
C9_SliceIndependence ==
    [][ \A x \in Slots :
          (OpStep /\ SliceRelated(x) /\ last'.o = OtherSlot(x)
             /\ last'.op \in {"setitem", "tblset"}) =>
            /\ XValuesIn(bufs', objs'[x]) = XValuesIn(bufs, objs[x])
            /\ objs'[x].smp = objs[x].smp
            /\ objs'[x].var = objs[x].var
      ]_vars

====
